---- MODULE Spec2Model ----
(***************************************************************************)
(* Expense store of main_async.py: one SQLite table `expenses`, five       *)
(* coroutine tools (add_expense, update_expense, delete_expense,           *)
(* list_expenses, summarize), each on its own aiosqlite connection.        *)
(*                                                                         *)
(* Text is modelled as the sequence of its bytes (SQLite's BINARY          *)
(* collation compares TEXT with memcmp; Python's `in` and lower() work on  *)
(* the characters).  A nullable value is <<>> (None / NULL) or <<v>>.      *)
(* A coroutine runs from one await to the next without interruption; each  *)
(* action below is one such stretch of one call.                           *)
(***************************************************************************)
EXTENDS Integers, Sequences, FiniteSets, TLC

\* ------------------------------------------------------------------ bounds
\* Largest number of INSERTs the model lets start (caps the id counter).
MaxAdds == 2

\* -------------------------------------------------------------------- text
\* "readonly"
READONLY ==
    <<114,101,97,100,111,110,108,121>>
\* "read-only"
READ_ONLY_HYPHEN ==
    <<114,101,97,100,45,111,110,108,121>>
\* "attempt to write a readonly database"
ReadOnlyText ==
    <<97,116,116,101,109,112,116,32,116,111,32,119,114,105,116,101,32,97,32,114,101,97,100,111,110,108,121,32,100,97,116,97,98,97,115,101>>
\* "database is locked"
LockedText ==
    <<100,97,116,97,98,97,115,101,32,105,115,32,108,111,99,107,101,100>>
\* "unable to open database file"
CantOpenText ==
    <<117,110,97,98,108,101,32,116,111,32,111,112,101,110,32,100,97,116,97,98,97,115,101,32,102,105,108,101>>
\* "NOT NULL constraint failed: expenses."
NotNullText ==
    <<78,79,84,32,78,85,76,76,32,99,111,110,115,116,114,97,105,110,116,32,102,97,105,108,101,100,58,32,101,120,112,101,110,115,101,115,46>>
\* "'coroutine' object is not iterable"
NotIterableText ==
    <<39,99,111,114,111,117,116,105,110,101,39,32,111,98,106,101,99,116,32,105,115,32,110,111,116,32,105,116,101,114,97,98,108,101>>
\* "Database is in read-only mode. Check file permissions."
ReadOnlyMessage ==
    <<68,97,116,97,98,97,115,101,32,105,115,32,105,110,32,114,101,97,100,45,111,110,108,121,32,109,111,100,101,46,32,67,104,101,99,107,32,102,105,108,101,32,112,101,114,109,105,115,115,105,111,110,115,46>>
\* "Database error: "
DatabaseErrorPrefix ==
    <<68,97,116,97,98,97,115,101,32,101,114,114,111,114,58,32>>
\* "Error listing expenses: "
ListErrorPrefix ==
    <<69,114,114,111,114,32,108,105,115,116,105,110,103,32,101,120,112,101,110,115,101,115,58,32>>
\* "Error summarizing expenses: "
SummarizeErrorPrefix ==
    <<69,114,114,111,114,32,115,117,109,109,97,114,105,122,105,110,103,32,101,120,112,101,110,115,101,115,58,32>>
\* "Expense added successfully"
AddedMessage ==
    <<69,120,112,101,110,115,101,32,97,100,100,101,100,32,115,117,99,99,101,115,115,102,117,108,108,121>>
\* "Expense updated successfully"
UpdatedMessage ==
    <<69,120,112,101,110,115,101,32,117,112,100,97,116,101,100,32,115,117,99,99,101,115,115,102,117,108,108,121>>
\* "Expense deleted successfully"
DeletedMessage ==
    <<69,120,112,101,110,115,101,32,100,101,108,101,116,101,100,32,115,117,99,99,101,115,115,102,117,108,108,121>>
\* "date", "amount", "category": the NOT NULL columns
ColDate ==
    <<100,97,116,101>>
ColAmount ==
    <<97,109,111,117,110,116>>
ColCategory ==
    <<99,97,116,101,103,111,114,121>>
\* "Food", "Travel"
Food ==
    <<70,111,111,100>>
Travel ==
    <<84,114,97,118,101,108>>
\* "1", "10", "2": dates are opaque tokens; "1" < "10" < "2" as strings
D1 ==
    <<49>>
D10 ==
    <<49,48>>
D2 ==
    <<50>>
\* "" , "x", "n"
Empty ==
    <<>>
SubX ==
    <<120>>
NoteN ==
    <<110>>

\* "Could not load categories: "
CategoriesErrorPrefix ==
    <<67,111,117,108,100,32,110,111,116,32,108,111,97,100,32,99,97,116,101,103,111,114,105,101,115,58,32>>
\* "[Errno 13] Permission denied: 'categories.json'" (the path without its directory)
PermissionDeniedText ==
    <<91,69,114,114,110,111,32,49,51,93,32,80,101,114,109,105,115,115,105,111,110,32,100,101,110,105,101,100,58,32,39,99,97,116,101,103,111,114,105,101,115,46,106,115,111,110,39>>
\* "categories"
KeyCategories ==
    <<99,97,116,101,103,111,114,105,101,115>>
\* Two texts an editor may put into categories.json:
\* '{"categories": ["Rent"]}' and '{"categories": []}'
CategoriesRent ==
    <<123,34,99,97,116,101,103,111,114,105,101,115,34,58,32,91,34,82,101,110,116,34,93,125>>
CategoriesNone ==
    <<123,34,99,97,116,101,103,111,114,105,101,115,34,58,32,91,93,125>>
\* The text json.dumps(default_categories, indent=2) gives in CPython:
\* '{\n  "categories": [\n    "Food & Dining",\n    ...,\n    "Other"\n  ]\n}'
FallbackJson ==
    <<123,10,32,32,34,99,97,116,101,103,111,114,105,101,115,34,58,32,91,10,32,32,32,32,34,70,111,111,100,32,38,32,68,105,110,105,110,103,34,44,10,32,32,32,32,34,84,114,97,110,115,112,111,114,116,97,116,105,111,110,34,44,10,32,32,32,32,34,83,104,111,112,112,105,110,103,34,44,10,32,32,32,32,34,69,110,116,101,114,116,97,105,110,109,101,110,116,34,44,10,32,32,32,32,34,66,105,108,108,115,32,38,32,85,116,105,108,105,116,105,101,115,34,44,10,32,32,32,32,34,72,101,97,108,116,104,99,97,114,101,34,44,10,32,32,32,32,34,84,114,97,118,101,108,34,44,10,32,32,32,32,34,69,100,117,99,97,116,105,111,110,34,44,10,32,32,32,32,34,66,117,115,105,110,101,115,115,34,44,10,32,32,32,32,34,79,116,104,101,114,34,10,32,32,93,10,125>>

\* ---------------------------------------------------------- nullable values
NULL == <<>>
Some(v) == <<v>>
IsNull(x) == x = NULL
Val(x) == x[1]

\* ------------------------------------------------------------ Python strings
\* str.lower() on ASCII text
Lower(s) == [i \in 1..Len(s) |-> IF s[i] >= 65 /\ s[i] <= 90 THEN s[i] + 32 ELSE s[i]]

\* `sub in s`
Contains(sub, s) ==
    \E i \in 0..(Len(s) - Len(sub)) :
        \A j \in 1..Len(sub) : s[i + j] = sub[j]

\* Python truthiness of an optional string argument: None and "" are falsy
Truthy(x) == ~IsNull(x) /\ Val(x) # Empty

\* ------------------------------------------------------- SQLite comparisons
\* memcmp over the common prefix, then the shorter text first (BINARY collation)
TextLE(a, b) ==
    \/ \E k \in 1..Len(a) :
          /\ k <= Len(b)
          /\ \A j \in 1..(k - 1) : a[j] = b[j]
          /\ a[k] < b[k]
    \/ /\ Len(a) <= Len(b)
       /\ \A j \in 1..Len(a) : a[j] = b[j]

\* x = y in a WHERE clause: never true when either side is NULL
SqlEq(x, y) == ~IsNull(x) /\ ~IsNull(y) /\ Val(x) = Val(y)

\* x BETWEEN lo AND hi on TEXT: x >= lo AND x <= hi, never true with a NULL
SqlBetween(x, lo, hi) ==
    /\ ~IsNull(x) /\ ~IsNull(lo) /\ ~IsNull(hi)
    /\ TextLE(Val(lo), Val(x))
    /\ TextLE(Val(x), Val(hi))

\* ------------------------------------------------------------- exceptions
\* An exception: its class, the storage condition behind it, and str(e).
NoError == [type |-> "none", cond |-> "none", text |-> Empty]
ReadOnlyError == [type |-> "OperationalError", cond |-> "readonly", text |-> ReadOnlyText]
LockedError == [type |-> "OperationalError", cond |-> "busy", text |-> LockedText]
CantOpenError == [type |-> "OperationalError", cond |-> "cantopen", text |-> CantOpenText]
IntegrityError(col) == [type |-> "IntegrityError", cond |-> "constraint", text |-> NotNullText \o col]
NotIterable == [type |-> "TypeError", cond |-> "program", text |-> NotIterableText]

\* The conditions that are failures of the storage layer.
StorageConds == {"readonly", "busy", "cantopen", "constraint"}

\* ------------------------------------------------------------ the table
\* A row of CREATE TABLE expenses(id, date, amount, category, subcategory, note)
Row(id, date, amount, category, subcategory, note) ==
    [id |-> id, date |-> date, amount |-> amount, category |-> category,
     subcategory |-> subcategory, note |-> note]

MaxRowid(rows) ==
    IF rows = {} THEN 0
    ELSE CHOOSE m \in {r.id : r \in rows} : \A r \in rows : r.id <= m

\* A rowid chosen as for a plain INTEGER PRIMARY KEY: one more than the largest
\* rowid now in the table (an id freed by a DELETE of the last row comes back).
NextIdNoAutoincrement(rows, sq) == MaxRowid(rows) + 1

\* id INTEGER PRIMARY KEY AUTOINCREMENT: one more than the largest rowid the
\* table has ever held, which sqlite_sequence (sq) records.
NextId(rows, sq) == (IF MaxRowid(rows) > sq THEN MaxRowid(rows) ELSE sq) + 1

\* The first NOT NULL column (date, amount, category) given NULL, or "".
NotNullViolation(date, amount, category) ==
    IF IsNull(date) THEN ColDate
    ELSE IF IsNull(amount) THEN ColAmount
    ELSE IF IsNull(category) THEN ColCategory
    ELSE Empty

\* A statement's outcome: the table and sqlite_sequence it leaves in the
\* connection's transaction, the cursor's lastrowid and rowcount, the rows a
\* SELECT produces, and the exception it raises (NoError: none).
Outcome(rows, sq, lastrowid, rowcount, fetched, exc) ==
    [rows |-> rows, seq |-> sq, lastrowid |-> lastrowid, rowcount |-> rowcount,
     fetched |-> fetched, exc |-> exc]

\* INSERT INTO expenses(date, amount, category, subcategory, note) VALUES (?,?,?,?,?)
Insert(rows, sq, date, amount, category, subcategory, note) ==
    LET bad == NotNullViolation(date, amount, category)
        id  == NextId(rows, sq)
    IN  IF bad # Empty
        THEN Outcome(rows, sq, 0, 0, <<>>, IntegrityError(bad))
        ELSE Outcome(rows \cup {Row(id, date, amount, category, subcategory, note)},
                     id, id, 1, <<>>, NoError)

\* A WHERE clause that adds the subcategory test whenever the argument is truthy.
UpdateWhereTruthy(r, date, category, subcategory) ==
    /\ SqlEq(r.date, date)
    /\ SqlEq(r.category, category)
    /\ (Truthy(subcategory) => SqlEq(r.subcategory, subcategory))

\* WHERE date = ? AND category = ? [AND subcategory = ?]   (update_expense)
UpdateWhere(r, date, category, subcategory) ==
    /\ SqlEq(r.date, date)
    /\ SqlEq(r.category, category)
    /\ (~IsNull(subcategory) => SqlEq(r.subcategory, subcategory))

\* A SET clause that always writes the note argument.
UpdateSetAlwaysNote(r, amount, note) ==
    [r EXCEPT !.amount = amount, !.note = note]

\* A SET clause that also writes subcategory = 'x'.
UpdateSetWritesSubcategory(r, amount, note) ==
    [r EXCEPT !.amount = amount, !.note = IF ~IsNull(note) THEN note ELSE @,
              !.subcategory = Some(SubX)]

\* SET amount = ? [, note = ?]   (update_expense)
UpdateSet(r, amount, note) ==
    [r EXCEPT !.amount = amount, !.note = IF ~IsNull(note) THEN note ELSE @]

\* UPDATE expenses SET ... WHERE ...
Update(rows, sq, date, category, amount, subcategory, note) ==
    LET hit == {r \in rows : UpdateWhere(r, date, category, subcategory)}
    IN  IF hit # {} /\ IsNull(amount)
        THEN Outcome(rows, sq, 0, 0, <<>>, IntegrityError(ColAmount))
        ELSE Outcome((rows \ hit) \cup {UpdateSet(r, amount, note) : r \in hit},
                     sq, 0, Cardinality(hit), <<>>, NoError)

\* A WHERE clause that forgets the category.
DeleteWhereDateOnly(r, date, category, subcategory) ==
    /\ SqlEq(r.date, date)
    /\ (~IsNull(subcategory) => SqlEq(r.subcategory, subcategory))

\* WHERE date = ? AND category = ? [AND subcategory = ?]   (delete_expense)
DeleteWhere(r, date, category, subcategory) ==
    /\ SqlEq(r.date, date)
    /\ SqlEq(r.category, category)
    /\ (~IsNull(subcategory) => SqlEq(r.subcategory, subcategory))

\* DELETE FROM expenses WHERE ...
Delete(rows, sq, date, category, subcategory) ==
    LET hit == {r \in rows : DeleteWhere(r, date, category, subcategory)}
    IN  Outcome(rows \ hit, sq, 0, Cardinality(hit), <<>>, NoError)

\* ----------------------------------------------------------------- SELECT
\* ORDER BY id ASC over a set of rows with distinct ids
RECURSIVE SortById(_)
SortById(S) ==
    IF S = {} THEN <<>>
    ELSE LET first == CHOOSE r \in S : \A q \in S : r.id <= q.id
         IN  <<first>> \o SortById(S \ {first})

\* ORDER BY category ASC over a set of category values (TEXT, never NULL here)
RECURSIVE SortText(_)
SortText(S) ==
    IF S = {} THEN <<>>
    ELSE LET first == CHOOSE x \in S : \A y \in S : TextLE(Val(x), Val(y))
         IN  <<first>> \o SortText(S \ {first})

\* SUM(amount) over a group of rows
RECURSIVE SumAmount(_)
SumAmount(S) ==
    IF S = {} THEN 0
    ELSE LET r == CHOOSE q \in S : TRUE
         IN  (IF IsNull(r.amount) THEN 0 ELSE Val(r.amount)) + SumAmount(S \ {r})

\* SELECT id, date, amount, category, subcategory, note FROM expenses
\* WHERE date BETWEEN ? AND ? ORDER BY id ASC: the result rows, as tuples.
SelectList(rows, start_date, end_date) ==
    LET hit == SortById({r \in rows : SqlBetween(r.date, start_date, end_date)})
    IN  [i \in 1..Len(hit) |->
            <<hit[i].id, hit[i].date, hit[i].amount, hit[i].category,
              hit[i].subcategory, hit[i].note>>]

ListDescription == <<"id", "date", "amount", "category", "subcategory", "note">>

\* SELECT category, SUM(amount) AS total_amount FROM expenses
\* WHERE date BETWEEN ? AND ? [AND category = ?] GROUP BY category
\* ORDER BY category ASC; the category test is added `if category:`.
SelectSummary(rows, start_date, end_date, category) ==
    LET hit  == {r \in rows :
                    /\ SqlBetween(r.date, start_date, end_date)
                    /\ (Truthy(category) => SqlEq(r.category, category))}
        cats == SortText({r.category : r \in hit})
    IN  [i \in 1..Len(cats) |->
            <<cats[i], SumAmount({r \in hit : r.category = cats[i]})>>]

SummaryDescription == <<"category", "total_amount">>

\* ------------------------------------------------------- Python on results
\* dict(zip(cols, r))
DictZip(cols, r) ==
    [k \in {cols[i] : i \in 1..Len(cols)} |->
        r[CHOOSE i \in 1..Len(cols) : cols[i] = k]]

\* cur.fetchall(): aiosqlite's Cursor.fetchall is a coroutine function, so the
\* call yields a coroutine object; only awaiting it yields the list of rows.
fetchall(fetched) == [kind |-> "coroutine", rows |-> fetched]

\* `for r in x`: the items of a list; a coroutine object is not iterable.
Iterate(x) ==
    IF x.kind = "list"
    THEN [exc |-> NoError, items |-> x.rows]
    ELSE [exc |-> NotIterable, items |-> <<>>]

\* [dict(zip(cols, r)) for r in cur.fetchall()]
Comprehension(cols, fetched) ==
    LET it == Iterate(fetchall(fetched))
    IN  [exc |-> it.exc,
         items |-> [i \in 1..Len(it.items) |-> DictZip(cols, it.items[i])]]

\* --------------------------------------------------------------- results
NoResult == [shape |-> "none"]
ErrorResult(message) == [shape |-> "object", status |-> "error", message |-> message]
SequenceResult(items) == [shape |-> "sequence", items |-> items]

\* An except clause that looks for "read-only" where SQLite says "readonly".
add_exceptHyphen(e) ==
    IF Contains(READ_ONLY_HYPHEN, Lower(e.text))
    THEN ErrorResult(ReadOnlyMessage)
    ELSE ErrorResult(DatabaseErrorPrefix \o e.text)

\* except Exception as e: of add_expense
add_except(e) ==
    IF Contains(READONLY, Lower(e.text))
    THEN ErrorResult(ReadOnlyMessage)
    ELSE ErrorResult(DatabaseErrorPrefix \o e.text)

\* except Exception as e: of update_expense
update_except(e) ==
    IF Contains(READONLY, Lower(e.text))
    THEN ErrorResult(ReadOnlyMessage)
    ELSE ErrorResult(DatabaseErrorPrefix \o e.text)

\* except Exception as e: of delete_expense
delete_except(e) ==
    IF Contains(READONLY, Lower(e.text))
    THEN ErrorResult(ReadOnlyMessage)
    ELSE ErrorResult(DatabaseErrorPrefix \o e.text)

\* An except clause that gives the empty listing for a failure.
list_exceptEmptyList(e) == SequenceResult(<<>>)

\* except Exception as e: of list_expenses
list_except(e) == ErrorResult(ListErrorPrefix \o e.text)

\* except Exception as e: of summarize
summarize_except(e) == ErrorResult(SummarizeErrorPrefix \o e.text)

\* The except clause of the tool `op`.
Except(op, e) ==
    CASE op = "add_expense" -> add_except(e)
      [] op = "update_expense" -> update_except(e)
      [] op = "delete_expense" -> delete_except(e)
      [] op = "list_expenses" -> list_except(e)
      [] op = "summarize" -> summarize_except(e)

\* return {"status": "ok", ...} of the three mutating tools
add_return(lastrowid) ==
    [shape |-> "object", status |-> "ok", id |-> lastrowid, message |-> AddedMessage]
update_return(rowcount) ==
    [shape |-> "object", status |-> "ok", updated |-> rowcount, message |-> UpdatedMessage]
\* A return that reports a delete of no row as an error.
delete_returnNoneIsError(rowcount) ==
    IF rowcount = 0
    THEN ErrorResult(DatabaseErrorPrefix)
    ELSE [shape |-> "object", status |-> "ok", deleted |-> rowcount,
          message |-> DeletedMessage]

delete_return(rowcount) ==
    [shape |-> "object", status |-> "ok", deleted |-> rowcount, message |-> DeletedMessage]

\* ------------------------------------------------------------ categories
\* default_categories["categories"]: "Food & Dining", "Transportation",
\* "Shopping", "Entertainment", "Bills & Utilities", "Healthcare", "Travel",
\* "Education", "Business", "Other"
default_categories ==
    <<<<70,111,111,100,32,38,32,68,105,110,105,110,103>>,
      <<84,114,97,110,115,112,111,114,116,97,116,105,111,110>>,
      <<83,104,111,112,112,105,110,103>>,
      <<69,110,116,101,114,116,97,105,110,109,101,110,116>>,
      <<66,105,108,108,115,32,38,32,85,116,105,108,105,116,105,101,115>>,
      <<72,101,97,108,116,104,99,97,114,101>>,
      <<84,114,97,118,101,108>>,
      <<69,100,117,99,97,116,105,111,110>>,
      <<66,117,115,105,110,101,115,115>>,
      <<79,116,104,101,114>>>>

\* json.dumps of a str without characters to escape
JsonString(s) == <<34>> \o s \o <<34>>

\* The items of a JSON array, one per line at the indent, separated by ",\n"
RECURSIVE JsonItems(_, _)
JsonItems(items, indent) ==
    IF items = <<>> THEN <<>>
    ELSE indent \o JsonString(Head(items))
         \o (IF Len(items) > 1 THEN <<44, 10>> \o JsonItems(Tail(items), indent)
             ELSE <<>>)

\* json.dumps({"categories": items}, indent=2) for a list that is not empty
json_dumps(items) ==
    <<123, 10, 32, 32>> \o JsonString(KeyCategories) \o <<58, 32, 91, 10>>
    \o JsonItems(items, <<32, 32, 32, 32>>)
    \o <<10, 32, 32, 93, 10, 125>>

FileNotFoundError == [type |-> "FileNotFoundError", cond |-> "nofile", text |-> Empty]
PermissionError == [type |-> "PermissionError", cond |-> "file", text |-> PermissionDeniedText]

TextResult(text) == [shape |-> "text", text |-> text]

\* A lookup that does not look at the file.
ReadCategoriesNoFile(file) == TextResult(json_dumps(default_categories))

\* with open(CATEGORIES_PATH, "r", encoding="utf-8") as f: return f.read()
\* except FileNotFoundError: return json.dumps(default_categories, indent=2)
ReadCategories(file) ==
    IF IsNull(file)
    THEN TextResult(json_dumps(default_categories))
    ELSE TextResult(Val(file))

\* except Exception as e: of categories
categories_except(e) == ErrorResult(CategoriesErrorPrefix \o e.text)

\* ----------------------------------------------------------------- init_db
\* CREATE TABLE expenses(...) after dropping the table that is there.
CreateTableAfterDrop(exists, rows, sq) ==
    [table |-> TRUE, rows |-> {}, seq |-> 0]

\* CREATE TABLE IF NOT EXISTS expenses(...): a table that exists is left as it
\* is, with its rows and its sqlite_sequence entry.
CreateTable(exists, rows, sq) ==
    IF exists
    THEN [table |-> TRUE, rows |-> rows, seq |-> sq]
    ELSE [table |-> TRUE, rows |-> {}, seq |-> 0]

\* ------------------------------------------------------------------ state
VARIABLES
    db,      \* the committed rows of table expenses in expenses.db
    seq,     \* the committed sqlite_sequence entry of the table
    writer,  \* the caller whose connection holds the file's write lock, or "none"
    pc,      \* where each caller's tool call stands
    call,    \* the tool and arguments of each caller's current or last call
    conn,    \* "open" while the call's aiosqlite connection is open
    txn,     \* the uncommitted table and sequence of the connection's transaction
    cur,     \* the cursor the call's execute returned
    exc,     \* the exception the call's except clause caught (NoError: none)
    result,  \* what the call returned
    issued,  \* the ids that add_expense has returned with status ok
    server,  \* the process: "import" (init_db to run), "serving", "failed"
    table,   \* TRUE when expenses.db holds the table expenses
    categories_file  \* the text of categories.json; NULL when there is no such file

vars == <<db, seq, writer, pc, call, conn, txn, cur, exc, result, issued,
          server, table, categories_file>>

\* The process and the files, which no step of a tool call changes.
outside == <<server, table, categories_file>>

Callers == {"a", "b"}

\* The argument values the callers draw from.
Dates == {Some(D10), Some(D2)}
RangeDates == {Some(D1), Some(D10), Some(D2)}
Categories == {Some(Food), Some(Travel)}
AddAmounts == {Some(10), NULL}
UpdateAmounts == {Some(25), NULL}
AddSubcategories == {NULL, Some(Empty), Some(SubX)}
AddNotes == {Some(NoteN)}
Subcategories == {NULL, Some(Empty), Some(SubX)}
Notes == {NULL, Some(Empty), Some(NoteN)}
SummaryCategories == {NULL, Some(Empty), Some(Travel)}

MutatingTools == {"add_expense", "update_expense", "delete_expense"}
ReadingTools == {"list_expenses", "summarize"}

NoCall ==
    [op |-> "none", date |-> NULL, amount |-> NULL, category |-> NULL,
     subcategory |-> NULL, note |-> NULL, start_date |-> NULL, end_date |-> NULL]
NoTxn == [active |-> FALSE, rows |-> {}, seq |-> 0]
NoCursor == [lastrowid |-> 0, rowcount |-> 0, fetched |-> <<>>]

\* init_db() has run: the table exists and is empty.
Init ==
    /\ db = {}
    /\ seq = 0
    /\ writer = "none"
    /\ pc = [c \in Callers |-> "idle"]
    /\ call = [c \in Callers |-> NoCall]
    /\ conn = [c \in Callers |-> "closed"]
    /\ txn = [c \in Callers |-> NoTxn]
    /\ cur = [c \in Callers |-> NoCursor]
    /\ exc = [c \in Callers |-> NoError]
    /\ result = [c \in Callers |-> NoResult]
    /\ issued = {}
    /\ server = "serving"
    /\ table = TRUE
    /\ categories_file = NULL

\* The sequence value the next INSERT will start from, and the INSERTs that
\* have been called and not yet executed.
SeqNow == IF writer # "none" THEN txn[writer].seq ELSE seq
InsertsAhead ==
    Cardinality({c \in Callers : call[c].op = "add_expense"
                                 /\ pc[c] \in {"connect", "execute"}})

\* A tool is invoked by an idle client of the running server (mcp.run is
\* reached only when init_db() has not raised): the coroutine starts and runs
\* to its first await, the connect.
Invoke(c, args) ==
    /\ server = "serving"
    /\ pc' = [pc EXCEPT ![c] = "connect"]
    /\ call' = [call EXCEPT ![c] = args]
    /\ UNCHANGED <<db, seq, writer, conn, txn, cur, exc, result, issued, outside>>

add_expense(c, date, amount, category, subcategory, note) ==
    /\ pc[c] = "idle"
    /\ SeqNow + InsertsAhead < MaxAdds
    /\ Invoke(c, [NoCall EXCEPT !.op = "add_expense", !.date = date,
                  !.amount = amount, !.category = category,
                  !.subcategory = subcategory, !.note = note])

update_expense(c, date, category, amount, subcategory, note) ==
    /\ pc[c] = "idle"
    /\ Invoke(c, [NoCall EXCEPT !.op = "update_expense", !.date = date,
                  !.amount = amount, !.category = category,
                  !.subcategory = subcategory, !.note = note])

delete_expense(c, date, category, subcategory) ==
    /\ pc[c] = "idle"
    /\ Invoke(c, [NoCall EXCEPT !.op = "delete_expense", !.date = date,
                  !.category = category, !.subcategory = subcategory])

list_expenses(c, start_date, end_date) ==
    /\ pc[c] = "idle"
    /\ Invoke(c, [NoCall EXCEPT !.op = "list_expenses",
                  !.start_date = start_date, !.end_date = end_date])

summarize(c, start_date, end_date, category) ==
    /\ pc[c] = "idle"
    /\ Invoke(c, [NoCall EXCEPT !.op = "summarize", !.start_date = start_date,
                  !.end_date = end_date, !.category = category])

\* An end of call that closes the connection only when no exception is on
\* its way (a close() after the statements instead of `async with`).
LeaveOpenOnError(c, res, e) ==
    /\ pc' = [pc EXCEPT ![c] = "done"]
    /\ conn' = [conn EXCEPT ![c] = IF e = NoError THEN "closed" ELSE @]
    /\ txn' = [txn EXCEPT ![c] = NoTxn]
    /\ writer' = IF writer = c THEN "none" ELSE writer
    /\ exc' = [exc EXCEPT ![c] = e]
    /\ result' = [result EXCEPT ![c] = res]

\* The call ends: leaving `async with` closes the connection (rolling back
\* an open transaction and giving up the write lock), then the tool returns.
Leave(c, res, e) ==
    /\ pc' = [pc EXCEPT ![c] = "done"]
    /\ conn' = [conn EXCEPT ![c] = "closed"]
    /\ txn' = [txn EXCEPT ![c] = NoTxn]
    /\ writer' = IF writer = c THEN "none" ELSE writer
    /\ exc' = [exc EXCEPT ![c] = e]
    /\ result' = [result EXCEPT ![c] = res]

\* A close that commits the transaction it finds open.
RollbackCommits(c) ==
    IF txn[c].active
    THEN db' = txn[c].rows /\ seq' = txn[c].seq
    ELSE db' = db /\ seq' = seq

\* Leaving `async with` on an exception closes the connection without a
\* commit: SQLite rolls back what the transaction did, the file keeps the
\* committed table and sequence.
Rollback(c) ==
    /\ db' = db
    /\ seq' = seq

\* An exception leaves the try block: the tool's except clause makes the result.
Raise(c, e) ==
    /\ Leave(c, Except(call[c].op, e), e)
    /\ Rollback(c)
    /\ UNCHANGED <<call, cur, issued, outside>>

\* async with aiosqlite.connect(DB_PATH) as c
Connect(c) ==
    /\ pc[c] = "connect"
    /\ pc' = [pc EXCEPT ![c] = "execute"]
    /\ conn' = [conn EXCEPT ![c] = "open"]
    /\ UNCHANGED <<db, seq, writer, call, txn, cur, exc, result, issued, outside>>

ConnectFails(c) ==
    /\ pc[c] = "connect"
    /\ Raise(c, CantOpenError)

\* await c.execute(...) of a mutating tool: the statement runs in a transaction
\* the connection opens for it, once the file's write lock is free.
Executed(c, o) ==
    IF o.exc # NoError
    THEN Raise(c, o.exc)
    ELSE /\ pc' = [pc EXCEPT ![c] = "commit"]
         /\ txn' = [txn EXCEPT ![c] = [active |-> TRUE, rows |-> o.rows, seq |-> o.seq]]
         /\ cur' = [cur EXCEPT ![c] = [lastrowid |-> o.lastrowid,
                                       rowcount |-> o.rowcount, fetched |-> <<>>]]
         /\ writer' = c
         /\ UNCHANGED <<db, seq, call, conn, exc, result, issued, outside>>

ExecuteInsert(c) ==
    /\ pc[c] = "execute" /\ call[c].op = "add_expense"
    /\ writer = "none"
    /\ Executed(c, Insert(db, seq, call[c].date, call[c].amount, call[c].category,
                          call[c].subcategory, call[c].note))

ExecuteUpdate(c) ==
    /\ pc[c] = "execute" /\ call[c].op = "update_expense"
    /\ writer = "none"
    /\ Executed(c, Update(db, seq, call[c].date, call[c].category, call[c].amount,
                          call[c].subcategory, call[c].note))

ExecuteDelete(c) ==
    /\ pc[c] = "execute" /\ call[c].op = "delete_expense"
    /\ writer = "none"
    /\ Executed(c, Delete(db, seq, call[c].date, call[c].category,
                          call[c].subcategory))

\* A connection that reads what the writer's open transaction has done so far.
ReadViewUncommitted(c) ==
    IF writer # "none" THEN txn[writer].rows ELSE db

\* The table a statement on the call's own connection reads: the committed
\* one (another connection's transaction is in its private page cache until
\* its commit).
ReadView(c) == db

\* The rows a reading tool's SELECT produces.
Select(c) ==
    IF call[c].op = "list_expenses"
    THEN SelectList(ReadView(c), call[c].start_date, call[c].end_date)
    ELSE SelectSummary(ReadView(c), call[c].start_date, call[c].end_date,
                       call[c].category)

\* A reading statement that takes the rows it returns out of the table.
ExecuteSelectConsumes(c) ==
    /\ pc[c] = "execute" /\ call[c].op \in ReadingTools
    /\ pc' = [pc EXCEPT ![c] = "fetch"]
    /\ cur' = [cur EXCEPT ![c] =
          [lastrowid |-> 0, rowcount |-> -1, fetched |-> Select(c)]]
    /\ db' = {r \in db : ~SqlBetween(r.date, call[c].start_date, call[c].end_date)}
    /\ UNCHANGED <<seq, writer, call, conn, txn, exc, result, issued, outside>>

\* await c.execute(...) of a reading tool: the SELECT sees the committed table.
ExecuteSelect(c) ==
    /\ pc[c] = "execute" /\ call[c].op \in ReadingTools
    /\ pc' = [pc EXCEPT ![c] = "fetch"]
    /\ cur' = [cur EXCEPT ![c] =
          [lastrowid |-> 0, rowcount |-> -1, fetched |-> Select(c)]]
    /\ UNCHANGED <<db, seq, writer, call, conn, txn, exc, result, issued, outside>>

\* The storage layer fails the statement: the file is read-only, or stays locked
\* past the busy timeout.
ExecuteFails(c, e) ==
    /\ pc[c] = "execute"
    /\ Raise(c, e)

\* A commit that writes nothing to the file.
CommitSkipped(c) ==
    /\ db' = db
    /\ seq' = seq

\* await c.commit(): the transaction's table and sequence become the file's.
CommitWrites(c) ==
    /\ db' = txn[c].rows
    /\ seq' = txn[c].seq

Commit(c) ==
    /\ pc[c] = "commit"
    /\ CommitWrites(c)
    /\ pc' = [pc EXCEPT ![c] = "return"]
    /\ txn' = [txn EXCEPT ![c] = NoTxn]
    /\ writer' = "none"
    /\ UNCHANGED <<call, conn, cur, exc, result, issued, outside>>

CommitFails(c, e) ==
    /\ pc[c] = "commit"
    /\ Raise(c, e)

\* return {"status": "ok", ...} of a mutating tool
Return(c) ==
    /\ pc[c] = "return"
    /\ Leave(c, CASE call[c].op = "add_expense" -> add_return(cur[c].lastrowid)
                  [] call[c].op = "update_expense" -> update_return(cur[c].rowcount)
                  [] call[c].op = "delete_expense" -> delete_return(cur[c].rowcount),
             NoError)
    /\ issued' = IF call[c].op = "add_expense"
                 THEN issued \cup {cur[c].lastrowid} ELSE issued
    /\ UNCHANGED <<db, seq, call, cur, outside>>

\* cols = [d[0] for d in cur.description]
\* return [dict(zip(cols, r)) for r in cur.fetchall()]
Fetch(c) ==
    /\ pc[c] = "fetch"
    /\ LET cols == IF call[c].op = "list_expenses"
                   THEN ListDescription ELSE SummaryDescription
           got  == Comprehension(cols, cur[c].fetched)
       IN  IF got.exc # NoError
           THEN Raise(c, got.exc)
           ELSE /\ Leave(c, SequenceResult(got.items), NoError)
                /\ UNCHANGED <<db, seq, call, cur, issued, outside>>

\* The result has gone to the client and the call's frame is dropped.
Respond(c) ==
    /\ pc[c] = "done"
    /\ pc' = [pc EXCEPT ![c] = "idle"]
    /\ call' = [call EXCEPT ![c] = NoCall]
    /\ cur' = [cur EXCEPT ![c] = NoCursor]
    /\ exc' = [exc EXCEPT ![c] = NoError]
    /\ result' = [result EXCEPT ![c] = NoResult]
    /\ UNCHANGED <<db, seq, writer, conn, txn, issued, outside>>

\* One step of a call that is under way.
Step(c) ==
    \/ Connect(c)
    \/ ConnectFails(c)
    \/ ExecuteInsert(c)
    \/ ExecuteUpdate(c)
    \/ ExecuteDelete(c)
    \/ ExecuteSelect(c)
    \/ \E e \in {ReadOnlyError, LockedError} : ExecuteFails(c, e)
    \/ Commit(c)
    \/ CommitFails(c, LockedError)
    \/ Return(c)
    \/ Fetch(c)
    \/ Respond(c)

\* One client, one call at a time, over the full argument sets.
Next ==
    \E c \in {"a"} :
        \/ \E d \in Dates, a \in AddAmounts, k \in Categories,
              s \in AddSubcategories, n \in AddNotes : add_expense(c, d, a, k, s, n)
        \/ \E a \in UpdateAmounts, s \in Subcategories, n \in Notes :
              update_expense(c, Some(D10), Some(Food), a, s, n)
        \/ \E s \in Subcategories :
              delete_expense(c, Some(D10), Some(Food), s)
        \/ \E lo \in RangeDates, hi \in RangeDates : list_expenses(c, lo, hi)
        \/ \E hi \in RangeDates, k \in SummaryCategories :
              summarize(c, Some(D1), hi, k)
        \/ Step(c)

Spec == Init /\ [][Next]_vars

\* Two clients whose calls interleave at every await, over small argument sets.
ConcNext ==
    \E c \in Callers :
        \/ \E s \in {Some(Empty), Some(SubX)} :
              add_expense(c, Some(D10), Some(10), Some(Food), s, Some(Empty))
        \/ \E s \in {NULL, Some(SubX)} :
              update_expense(c, Some(D10), Some(Food), Some(25), s, NULL)
        \/ \E s \in {NULL, Some(SubX)} :
              delete_expense(c, Some(D10), Some(Food), s)
        \/ list_expenses(c, Some(D1), Some(D2))
        \/ summarize(c, Some(D1), Some(D2), NULL)
        \/ Step(c)

ConcSpec == Init /\ [][ConcNext]_vars

\* ------------------------------------------------------ the server's life
\* The process is started on a directory that has no expenses.db and no
\* categories.json yet; importing the module runs init_db().
ServerInit ==
    /\ db = {}
    /\ seq = 0
    /\ writer = "none"
    /\ pc = [c \in Callers |-> "idle"]
    /\ call = [c \in Callers |-> NoCall]
    /\ conn = [c \in Callers |-> "closed"]
    /\ txn = [c \in Callers |-> NoTxn]
    /\ cur = [c \in Callers |-> NoCursor]
    /\ exc = [c \in Callers |-> NoError]
    /\ result = [c \in Callers |-> NoResult]
    /\ issued = {}
    /\ server = "import"
    /\ table = FALSE
    /\ categories_file = NULL

\* init_db() returns: the table is there and mcp.run() serves the tools.
init_db ==
    /\ server = "import"
    /\ LET made == CreateTable(table, db, seq)
       IN  /\ table' = made.table
           /\ db' = made.rows
           /\ seq' = made.seq
    /\ server' = "serving"
    /\ UNCHANGED <<writer, pc, call, conn, txn, cur, exc, result, issued,
                   categories_file>>

\* init_db() fails (the file cannot be opened or written): the except clause
\* prints and re-raises, the import ends with the exception and mcp.run() is
\* never reached.
init_dbFails ==
    /\ server = "import"
    /\ server' = "failed"
    /\ UNCHANGED <<db, seq, table, writer, pc, call, conn, txn, cur, exc, result,
                   issued, categories_file>>

\* The process ends, at any point of the calls under way, and is started
\* again: the calls and their connections are gone, an open transaction is
\* rolled back by SQLite, the files stay.
Restart ==
    /\ server \in {"serving", "failed"}
    /\ server' = "import"
    /\ writer' = "none"
    /\ pc' = [c \in Callers |-> "idle"]
    /\ call' = [c \in Callers |-> NoCall]
    /\ conn' = [c \in Callers |-> "closed"]
    /\ txn' = [c \in Callers |-> NoTxn]
    /\ cur' = [c \in Callers |-> NoCursor]
    /\ exc' = [c \in Callers |-> NoError]
    /\ result' = [c \in Callers |-> NoResult]
    /\ UNCHANGED <<db, seq, table, issued, categories_file>>

\* The resource expense://categories is read: the function has no await and
\* runs from its first line to its return.
categories(c) ==
    /\ server = "serving"
    /\ pc[c] = "idle"
    /\ pc' = [pc EXCEPT ![c] = "done"]
    /\ call' = [call EXCEPT ![c] = [NoCall EXCEPT !.op = "categories"]]
    /\ result' = [result EXCEPT ![c] = ReadCategories(categories_file)]
    /\ UNCHANGED <<db, seq, writer, conn, txn, cur, exc, issued, server, table,
                   categories_file>>

\* The file is there and open() or read() raises (no permission, bytes that
\* are not UTF-8): the outer except clause makes the result.
categoriesFails(c) ==
    /\ server = "serving"
    /\ pc[c] = "idle"
    /\ ~IsNull(categories_file)
    /\ pc' = [pc EXCEPT ![c] = "done"]
    /\ call' = [call EXCEPT ![c] = [NoCall EXCEPT !.op = "categories"]]
    /\ exc' = [exc EXCEPT ![c] = PermissionError]
    /\ result' = [result EXCEPT ![c] = categories_except(PermissionError)]
    /\ UNCHANGED <<db, seq, writer, conn, txn, cur, issued, server, table,
                   categories_file>>

\* Someone creates or edits categories.json, or removes it.
FileTexts == {CategoriesRent, CategoriesNone}

WriteCategoriesFile(text) ==
    /\ categories_file # Some(text)
    /\ categories_file' = Some(text)
    /\ UNCHANGED <<db, seq, writer, pc, call, conn, txn, cur, exc, result, issued,
                   server, table>>

RemoveCategoriesFile ==
    /\ categories_file # NULL
    /\ categories_file' = NULL
    /\ UNCHANGED <<db, seq, writer, pc, call, conn, txn, cur, exc, result, issued,
                   server, table>>

\* The server from its first start: one client of the tools, two readers of
\* the categories, restarts and edits of categories.json at any time.
ServerNext ==
    \/ init_db
    \/ init_dbFails
    \/ Restart
    \/ \E text \in FileTexts : WriteCategoriesFile(text)
    \/ RemoveCategoriesFile
    \/ \E c \in Callers :
          \/ categories(c)
          \/ categoriesFails(c)
          \/ Step(c)
    \/ \E c \in {"a"} :
          \/ \E s \in {Some(Empty), Some(SubX)} :
                add_expense(c, Some(D10), Some(10), Some(Food), s, Some(Empty))
          \/ \E s \in {NULL, Some(SubX)} :
                update_expense(c, Some(D10), Some(Food), Some(25), s, NULL)
          \/ \E s \in {NULL, Some(SubX)} :
                delete_expense(c, Some(D10), Some(Food), s)
          \/ list_expenses(c, Some(D1), Some(D2))
          \/ summarize(c, Some(D1), Some(D2), NULL)

ServerSpec == ServerInit /\ [][ServerNext]_vars

\* ================================================================ claims
\* The steps of a call, as seen from outside it.
Commits(c) == pc[c] = "commit" /\ pc'[c] = "return"
ReturnsOk(c) == pc[c] = "return" /\ pc'[c] = "done"
Fetches(c) == pc[c] = "fetch" /\ pc'[c] = "done"
Healthy(c) == exc[c].cond \notin StorageConds

\* The rows a (date, category, subcategory) selection names: date and category
\* equal to the arguments, and subcategory too when one is given (not None).
Selected(rows, a) ==
    {r \in rows : /\ r.date = a.date
                  /\ r.category = a.category
                  /\ (a.subcategory # NULL => r.subcategory = a.subcategory)}

RowWithId(rows, id) == CHOOSE r \in rows : r.id = id

\* The rows of the table whose date is in [lo, hi] as strings, by ascending id,
\* each as the object list_expenses is to return for it.
InRange(rows, lo, hi) ==
    {r \in rows : TextLE(Val(lo), Val(r.date)) /\ TextLE(Val(r.date), Val(hi))}

\* ---------------------------------------------------------------------- C2
\* C2: update_expense sets amount on exactly the rows whose date and category
\* equal the arguments, restricted by subcategory only when it is not None ("" is
\* a value), and the 'updated' it returns is the number of those rows.  Stated
\* on the commit step (table before and after) and on the return step.
UpdateScope ==
    [][\A c \in Callers :
          call[c].op = "update_expense" =>
            /\ Commits(c) =>
                 LET hit == Selected(db, call[c])
                 IN  /\ {r.id : r \in db'} = {r.id : r \in db}
                     /\ \A r \in hit : RowWithId(db', r.id).amount = call[c].amount
                     /\ \A r \in db \ hit : RowWithId(db', r.id).amount = r.amount
                     /\ cur[c].rowcount = Cardinality(hit)
            /\ ReturnsOk(c) =>
                 /\ result'[c].status = "ok"
                 /\ result'[c].updated = cur[c].rowcount]_vars

\* An update with subcategory "" that changed one of two rows of its date and
\* category: the row with subcategory "x" kept its amount.
UpdateScopeWitness ==
    \E c \in Callers :
        /\ pc[c] = "done" /\ call[c].op = "update_expense"
        /\ call[c].subcategory = Some(Empty)
        /\ result[c].status = "ok" /\ result[c].updated = 1
        /\ \E r \in db, q \in db :
              /\ r.date = call[c].date /\ r.category = call[c].category
              /\ q.date = call[c].date /\ q.category = call[c].category
              /\ r.subcategory = Some(Empty) /\ r.amount = call[c].amount
              /\ q.subcategory = Some(SubX) /\ q.amount # call[c].amount

\* ---------------------------------------------------------------------- C3
\* C3: with note = None every matched row keeps its note while its amount is
\* set; with a note given (also "") every matched row's note becomes that note.
UpdateNote ==
    [][\A c \in Callers :
          (call[c].op = "update_expense" /\ Commits(c)) =>
             \A r \in Selected(db, call[c]) :
                 /\ RowWithId(db', r.id).amount = call[c].amount
                 /\ RowWithId(db', r.id).note =
                       IF call[c].note = NULL THEN r.note ELSE call[c].note]_vars

\* An update with note = None has returned: a row has the new amount and still
\* its note "n".
UpdateNoteWitness ==
    \E c \in Callers :
        /\ pc[c] = "done" /\ call[c].op = "update_expense"
        /\ call[c].note = NULL
        /\ result[c].status = "ok" /\ result[c].updated > 0
        /\ \E r \in db : r.amount = call[c].amount /\ r.note = Some(NoteN)

\* ---------------------------------------------------------------------- C4
\* C4: delete_expense removes exactly the rows whose date and category equal the
\* arguments (and subcategory, when not None); every other row stays as it was;
\* 'deleted' is the number of rows removed.
DeleteScope ==
    [][\A c \in Callers :
          call[c].op = "delete_expense" =>
            /\ Commits(c) =>
                 /\ db' = db \ Selected(db, call[c])
                 /\ cur[c].rowcount = Cardinality(Selected(db, call[c]))
            /\ ReturnsOk(c) =>
                 /\ result'[c].status = "ok"
                 /\ result'[c].deleted = cur[c].rowcount]_vars

\* A delete removed one row and left another row in the table.
DeleteScopeWitness ==
    \E c \in Callers :
        /\ pc[c] = "done" /\ call[c].op = "delete_expense"
        /\ result[c].status = "ok" /\ result[c].deleted = 1
        /\ db # {}
        /\ Selected(db, call[c]) = {}

\* ---------------------------------------------------------------------- C8
\* C8: ids are unique and never reused.  In every step of any interleaving: the
\* table holds no two rows with one id; the id an INSERT assigns is greater than
\* every id that a successful add has returned by then (an add that returned
\* before this one was called is among them, also when its row is deleted since);
\* an add_expense that returns ok returns that id, which no add returned before
\* (so two interleaved adds never return the same id); and a row that stays in
\* the table keeps its id, date, category and subcategory, a new row having an id
\* the table never held.
IdsNeverReused ==
    [][/\ \A r \in db', q \in db' : r.id = q.id => r = q
       /\ \A c \in Callers :
             /\ (call[c].op = "add_expense" /\ pc[c] = "execute" /\ pc'[c] = "commit") =>
                   /\ cur'[c].lastrowid > 0
                   /\ \A i \in issued : i < cur'[c].lastrowid
             /\ (call[c].op = "add_expense" /\ ReturnsOk(c)) =>
                   /\ result'[c].status = "ok"
                   /\ result'[c].id = cur[c].lastrowid
                   /\ result'[c].id \notin issued
       /\ \A r \in db' :
             IF r.id \in {q.id : q \in db}
             THEN LET q == RowWithId(db, r.id)
                  IN  /\ r.date = q.date
                      /\ r.category = q.category
                      /\ r.subcategory = q.subcategory
             ELSE r.id > seq /\ r.id > MaxRowid(db)]_vars

\* Two adds whose calls overlapped have both returned ok, with different ids.
IdsNeverReusedWitness ==
    /\ pc["a"] = "done" /\ call["a"].op = "add_expense" /\ result["a"].status = "ok"
    /\ pc["b"] = "done" /\ call["b"].op = "add_expense" /\ result["b"].status = "ok"
    /\ result["a"].id # result["b"].id
    /\ issued = {result["a"].id, result["b"].id}

\* --------------------------------------------------------------------- C10
\* C10: a mutating tool returns ok only after its commit, and the commit put its
\* change into the committed table that every later connection reads: the added
\* row with the arguments' values, the new amount on every selected row, no
\* selected row left.  No transaction or write lock is left to the call that
\* returns ok.
CommitBeforeSuccess ==
    [][\A c \in Callers :
          /\ (pc'[c] = "done" /\ pc[c] # "done" /\ result'[c].status = "ok") =>
                /\ pc[c] = "return"
                /\ ~txn[c].active
                /\ writer # c
          /\ (Commits(c) /\ call[c].op = "add_expense") =>
                Row(cur[c].lastrowid, call[c].date, call[c].amount, call[c].category,
                    call[c].subcategory, call[c].note) \in db'
          /\ (Commits(c) /\ call[c].op = "update_expense") =>
                /\ Cardinality(Selected(db', call[c])) = cur[c].rowcount
                /\ \A r \in Selected(db', call[c]) : r.amount = call[c].amount
          /\ (Commits(c) /\ call[c].op = "delete_expense") =>
                Selected(db', call[c]) = {}]_vars

\* One client's update has returned ok with a row changed, and the changed row
\* is in the committed table while the other client's call is still under way.
CommitBeforeSuccessWitness ==
    \E c \in Callers, d \in Callers :
        /\ pc[c] = "done" /\ call[c].op = "update_expense"
        /\ result[c].status = "ok" /\ result[c].updated > 0
        /\ \E r \in db : r.amount = call[c].amount
        /\ pc[d] = "execute"

RoundTrip ==
    [][\A c \in Callers :
          /\ (call[c].op = "add_expense" /\ Commits(c)) =>
                /\ cur[c].lastrowid > 0
                /\ Row(cur[c].lastrowid, call[c].date, call[c].amount,
                       call[c].category, call[c].subcategory, call[c].note) \in db'
          /\ (call[c].op = "list_expenses" /\ Fetches(c) /\ exc'[c].cond \notin StorageConds) =>
                \A r \in InRange(db, call[c].start_date, call[c].end_date) :
                   r.id \in issued =>
                      /\ result'[c].shape = "sequence"
                      /\ Cardinality({k \in 1..Len(result'[c].items) :
                                         result'[c].items[k].id = r.id}) = 1
                      /\ \E k \in 1..Len(result'[c].items) : result'[c].items[k] = r]_vars

\* ---------------------------------------------------------------------- C5
\* C5: on healthy storage list_expenses returns a sequence whose elements are
\* exactly the rows with start_date <= date <= end_date as strings, each with its
\* six fields, in strictly ascending id.
ListInRangeById ==
    \A c \in Callers :
        (pc[c] = "done" /\ call[c].op = "list_expenses" /\ Healthy(c)) =>
           /\ result[c].shape = "sequence"
           /\ LET it == result[c].items
              IN  /\ {it[k] : k \in 1..Len(it)} =
                        InRange(db, call[c].start_date, call[c].end_date)
                  /\ \A k \in 1..Len(it) :
                        DOMAIN it[k] = {"id", "date", "amount", "category",
                                        "subcategory", "note"}
                  /\ \A j \in 1..Len(it), k \in 1..Len(it) :
                        j < k => it[j].id < it[k].id

\* ---------------------------------------------------------------------- C6
\* The elements summarize is to return for a set of rows: one per category, with
\* the sum of the category's amounts.
Totals(rows) ==
    {[category |-> k, total_amount |-> SumAmount({r \in rows : r.category = k})] :
        k \in {r.category : r \in rows}}

\* C6: on healthy storage summarize without a category returns one element per
\* category that has a row in the range, with the sum of those rows' amounts, in
\* ascending category; a category with no row in the range does not appear.
SummarizeByCategory ==
    \A c \in Callers :
        (pc[c] = "done" /\ call[c].op = "summarize" /\ Healthy(c)
            /\ call[c].category = NULL) =>
           /\ result[c].shape = "sequence"
           /\ LET it == result[c].items
              IN  /\ {it[k] : k \in 1..Len(it)} =
                        Totals(InRange(db, call[c].start_date, call[c].end_date))
                  /\ \A j \in 1..Len(it), k \in 1..Len(it) :
                        j < k => /\ it[j].category # it[k].category
                                 /\ TextLE(Val(it[j].category), Val(it[k].category))

\* ---------------------------------------------------------------------- C7
\* C7: summarize with a category (not None, not "") returns at most one element,
\* for that category, with the sum of its rows in the range, and the empty
\* sequence when the range holds no row of it; with category None or "" it
\* returns the totals of every category in the range.
SummarizeOneCategory ==
    \A c \in Callers :
        (pc[c] = "done" /\ call[c].op = "summarize" /\ Healthy(c)) =>
           /\ result[c].shape = "sequence"
           /\ LET it  == result[c].items
                  all == InRange(db, call[c].start_date, call[c].end_date)
                  own == {r \in all : r.category = call[c].category}
              IN  IF Truthy(call[c].category)
                  THEN /\ Len(it) <= 1
                       /\ {it[k] : k \in 1..Len(it)} = Totals(own)
                  ELSE {it[k] : k \in 1..Len(it)} = Totals(all)

\* --------------------------------------------------------------------- C11
\* The row a list_expenses SELECT produced, from its tuple.
AsRow(t) == Row(t[1], t[2], t[3], t[4], t[5], t[6])

\* C11: in every interleaving of two callers, the rows the SELECT of a
\* list_expenses produces are exactly the rows of the committed table in its
\* range, and the totals the SELECT of a summarize produces are the totals of
\* the committed table, whatever another call's open transaction has done; and
\* the committed table changes only in the commit step of one call, which puts
\* that call's whole change: every row an update selected has the new amount,
\* no row a delete selected is left.
AtomicReads ==
    [][/\ \A c \in Callers :
             (pc[c] = "execute" /\ pc'[c] = "fetch") =>
                LET seen == cur'[c].fetched
                    all  == InRange(db, call[c].start_date, call[c].end_date)
                IN  IF call[c].op = "list_expenses"
                    THEN {AsRow(seen[i]) : i \in 1..Len(seen)} = all
                    ELSE {[category |-> seen[i][1], total_amount |-> seen[i][2]] :
                             i \in 1..Len(seen)}
                         = Totals(IF Truthy(call[c].category)
                                  THEN {r \in all : r.category = call[c].category}
                                  ELSE all)
       /\ db' # db =>
             \E d \in Callers :
                /\ Commits(d)
                /\ call[d].op = "update_expense" =>
                      /\ {r.id : r \in db'} = {r.id : r \in db}
                      /\ \A r \in Selected(db, call[d]) :
                            RowWithId(db', r.id).amount = call[d].amount
                /\ call[d].op = "delete_expense" =>
                      db' = db \ Selected(db, call[d])]_vars

\* A list_expenses has run its SELECT while the other caller's update was
\* executed and not committed: a row it produced is in the committed table and
\* is not what the update's transaction holds.
AtomicReadsWitness ==
    \E c \in Callers, d \in Callers :
        /\ pc[c] = "fetch" /\ call[c].op = "list_expenses"
        /\ pc[d] = "commit" /\ call[d].op = "update_expense"
        /\ txn[d].active /\ txn[d].rows # db
        /\ \E i \in 1..Len(cur[c].fetched) :
              /\ AsRow(cur[c].fetched[i]) \in db
              /\ AsRow(cur[c].fetched[i]) \notin txn[d].rows

\* --------------------------------------------------------------------- C12
\* C12: no failure leaves a tool as an exception.  Whenever a call has met a
\* failure (at connect, execute, commit or while reading the result) the call
\* has returned, and what it returned is an object with status 'error' and a
\* message: the read-only message, or a message that carries the failure's
\* text.  A call of list_expenses or summarize that returned a sequence met no
\* failure.
NoFailurePropagates ==
    \A c \in Callers :
        /\ exc[c] # NoError =>
              /\ pc[c] = "done"
              /\ result[c].shape = "object"
              /\ result[c].status = "error"
              /\ \/ result[c].message = ReadOnlyMessage
                 \/ /\ Len(exc[c].text) > 0
                    /\ Contains(exc[c].text, result[c].message)
        /\ (pc[c] = "done" /\ result[c].shape = "sequence") => exc[c] = NoError
        /\ pc[c] = "done" => result[c].shape \in {"object", "sequence"}

\* A list_expenses whose SELECT failed on a locked file has returned the error
\* object.
NoFailurePropagatesWitness ==
    \E c \in Callers :
        /\ pc[c] = "done" /\ call[c].op = "list_expenses"
        /\ exc[c].cond = "busy"
        /\ result[c].shape = "object" /\ result[c].status = "error"
        /\ result[c].message = ListErrorPrefix \o LockedText

\* --------------------------------------------------------------------- C13
\* C13: an update_expense or delete_expense whose selection matches no row of
\* the table does not fail for that: its statement raises nothing (also with a
\* NULL amount) unless the storage fails, and its cursor counts 0 rows; the
\* commit of a call whose cursor counts 0 rows leaves the table exactly as it
\* was, and the call returns status ok with updated: 0 / deleted: 0.
NoMatchIsOk ==
    [][\A c \in Callers :
          call[c].op \in {"update_expense", "delete_expense"} =>
             /\ (pc[c] = "execute" /\ pc'[c] # "execute"
                    /\ Selected(db, call[c]) = {}) =>
                   \/ /\ pc'[c] = "commit"
                      /\ cur'[c].rowcount = 0
                      /\ txn'[c].rows = db
                   \/ /\ pc'[c] = "done"
                      /\ exc'[c].cond \in {"readonly", "busy"}
             /\ (Commits(c) /\ cur[c].rowcount = 0) =>
                   /\ Selected(db, call[c]) = {}
                   /\ db' = db
                   /\ seq' = seq
             /\ (ReturnsOk(c) /\ cur[c].rowcount = 0) =>
                   /\ result'[c].shape = "object"
                   /\ result'[c].status = "ok"
                   /\ IF call[c].op = "update_expense"
                      THEN result'[c].updated = 0
                      ELSE result'[c].deleted = 0]_vars

\* A delete that matched none of the rows of a table that has rows returned
\* ok with deleted: 0.
NoMatchIsOkWitness ==
    \E c \in Callers :
        /\ pc[c] = "done" /\ call[c].op = "delete_expense"
        /\ result[c].status = "ok" /\ result[c].deleted = 0
        /\ db # {}

\* --------------------------------------------------------------------- C14
\* C14: a call owns its connection for its duration and for no longer.  A call
\* that is about to connect has no connection; between its connect and its
\* return it has one, open; a call that has returned, with whatever result and
\* from whichever step, has none, and holds no transaction and no write lock.
\* A transaction belongs to the one call whose connection holds the write lock.
ConnectionsReleased ==
    \A c \in Callers :
        /\ pc[c] \in {"idle", "connect", "done"} =>
              /\ conn[c] = "closed"
              /\ ~txn[c].active
              /\ writer # c
        /\ pc[c] \in {"execute", "commit", "return", "fetch"} => conn[c] = "open"
        /\ txn[c].active => (conn[c] = "open" /\ writer = c)

\* An update whose commit failed has returned its error object with its
\* connection closed, while the other caller's call has its own connection open.
ConnectionsReleasedWitness ==
    \E c \in Callers, d \in Callers :
        /\ pc[c] = "done" /\ call[c].op = "update_expense"
        /\ exc[c].cond = "busy" /\ cur[c].rowcount > 0
        /\ result[c].status = "error"
        /\ conn[c] = "closed"
        /\ pc[d] = "commit" /\ conn[d] = "open"

\* --------------------------------------------------------------------- C15
\* C15: in every reachable state every row of the table has a subcategory and
\* a note that are not NULL, whatever values (None included) add_expense and
\* update_expense were called with.
NeverNull ==
    \A r \in db : r.subcategory # NULL /\ r.note # NULL

\* --------------------------------------------------------------------- C16
\* C16: the table changes only in the commit step of a mutating call.  The
\* commit of an add_expense adds exactly one row and leaves the others as they
\* were; the commit of a delete_expense only removes rows; the commit of an
\* update_expense leaves the set of ids as it was, leaves id, date, category
\* and subcategory of every row as they were, and leaves every row outside its
\* selection exactly as it was.  So the number of rows grows only by an add and
\* shrinks only by a delete.
LifecycleFrame ==
    [][/\ db' # db => \E c \in Callers : Commits(c)
       /\ Cardinality(db') > Cardinality(db) =>
             \E c \in Callers : Commits(c) /\ call[c].op = "add_expense"
       /\ Cardinality(db') < Cardinality(db) =>
             \E c \in Callers : Commits(c) /\ call[c].op = "delete_expense"
       /\ \A c \in Callers :
             Commits(c) =>
                CASE call[c].op = "add_expense" ->
                        /\ db \subseteq db'
                        /\ Cardinality(db') = Cardinality(db) + 1
                  [] call[c].op = "delete_expense" ->
                        db' \subseteq db
                  [] call[c].op = "update_expense" ->
                        /\ {r.id : r \in db'} = {r.id : r \in db}
                        /\ Cardinality(db') = Cardinality(db)
                        /\ \A r \in db :
                              LET q == RowWithId(db', r.id)
                              IN  /\ q.date = r.date
                                  /\ q.category = r.category
                                  /\ q.subcategory = r.subcategory
                                  /\ r \notin Selected(db, call[c]) => q = r]_vars

\* An update has changed one row of a table of two rows; the other row, of
\* another category, has the amount it was added with.
LifecycleFrameWitness ==
    \E c \in Callers :
        /\ pc[c] = "done" /\ call[c].op = "update_expense"
        /\ result[c].status = "ok" /\ result[c].updated = 1
        /\ Cardinality(db) = 2
        /\ \E r \in db, q \in db :
              /\ r.category = call[c].category /\ r.amount = call[c].amount
              /\ q.category # call[c].category /\ q.amount = Some(10)

\* --------------------------------------------------------------------- C17
\* C17: init_db is idempotent and its failure is fatal.  An init_db that
\* returns leaves the table in place, and when the table was there already it
\* leaves every row and the id sequence as they were; an init_db that fails
\* changes nothing in the file and leaves the process failed; a tool or the
\* category lookup makes a step only in a process whose init_db has returned,
\* with the table in place, and in a failed process no call is ever under way.
InitOnceOrNothing ==
    [][/\ (server = "import" /\ server' = "serving") =>
             /\ table'
             /\ table => (db' = db /\ seq' = seq)
             /\ ~table => db' = {}
       /\ (server = "import" /\ server' = "failed") =>
             (db' = db /\ seq' = seq /\ table' = table)
       /\ \A c \in Callers :
             /\ (pc'[c] # pc[c] /\ pc'[c] # "idle") => (server = "serving" /\ table)
             /\ pc'[c] # "idle" => (server' = "serving" /\ table')
       /\ server = "failed" => server' \in {"failed", "import"}]_vars

\* init_db has run on a table that held a row and the server is serving with
\* the row in the table: the row is of an add whose commit was made and whose
\* return was cut off by the end of the process (no add has returned), so it
\* was there when the process started again.
InitOnceOrNothingWitness ==
    /\ server = "serving" /\ table
    /\ db # {}
    /\ issued = {}
    /\ \A c \in Callers : pc[c] = "idle"

\* --------------------------------------------------------------------- C18
\* C18: the category lookup is not cached.  Every call of categories that
\* does not fail returns the text categories.json has at that moment when the
\* file is there, and the JSON text of the ten fallback categories when it is
\* not, whatever earlier calls have returned.
CategoriesFresh ==
    [][\A c \in Callers :
          (pc[c] = "idle" /\ pc'[c] = "done" /\ call'[c].op = "categories"
              /\ exc'[c] = NoError) =>
             /\ result'[c].shape = "text"
             /\ result'[c].text = IF categories_file = NULL
                                  THEN FallbackJson
                                  ELSE Val(categories_file)
             /\ Len(default_categories) = 10]_vars

\* Two lookups have returned, one the fallback and the other the text of the
\* file, which was created between them.
CategoriesFreshWitness ==
    \E c \in Callers, d \in Callers :
        /\ pc[c] = "done" /\ call[c].op = "categories"
        /\ pc[d] = "done" /\ call[d].op = "categories"
        /\ result[c] = TextResult(FallbackJson)
        /\ categories_file = Some(CategoriesRent)
        /\ result[d] = TextResult(CategoriesRent)

\* --------------------------------------------------------------------- C19
\* C19: a mutating call that returns status 'error' has put nothing into the
\* committed table.  The step in which it returns the error (from its connect,
\* its execute or its commit) leaves the committed table and id sequence as
\* they were and discards the call's transaction; it is never taken after the
\* call's commit step, which is the only step that changes the committed table.
ErrorLeavesTable ==
    [][\A c \in Callers :
          /\ (call[c].op \in MutatingTools /\ pc[c] # "done" /\ pc'[c] = "done"
                 /\ result'[c].status = "error") =>
                /\ pc[c] \in {"connect", "execute", "commit"}
                /\ db' = db
                /\ seq' = seq
                /\ ~txn'[c].active
                /\ writer' # c
          /\ (call[c].op \in MutatingTools /\ pc[c] # pc'[c] /\ db' # db) =>
                (Commits(c) /\ db' = txn[c].rows)
          /\ (call[c].op \in MutatingTools /\ pc[c] = "return" /\ pc'[c] = "done") =>
                result'[c].status = "ok"]_vars

\* An update that had changed a row in its transaction failed at its commit
\* and returned the error object: the committed table has the row unchanged.
ErrorLeavesTableWitness ==
    \E c \in Callers :
        /\ pc[c] = "done" /\ call[c].op = "update_expense"
        /\ result[c].status = "error" /\ exc[c].cond = "busy"
        /\ cur[c].rowcount > 0
        /\ \A r \in db : r.amount # call[c].amount
        /\ Selected(db, call[c]) # {}

\* --------------------------------------------------------------------- C20
\* C20: list_expenses and summarize are read-only.  No step of a call of
\* either, from its invocation to its return of a sequence or of an error
\* object, changes the committed table (the set of rows and every field of
\* every row), the id sequence, or the id the next INSERT will get; the call
\* never holds a transaction or the write lock.
ReadsChangeNothing ==
    [][\A c \in Callers :
          ((call[c].op \in ReadingTools \/ call'[c].op \in ReadingTools)
              /\ pc'[c] # pc[c]) =>
             /\ db' = db
             /\ seq' = seq
             /\ NextId(db', seq') = NextId(db, seq)
             /\ ~txn'[c].active
             /\ writer' # c]_vars

\* A list_expenses whose SELECT produced the two rows of the table has
\* returned, and the table has its two rows.
ReadsChangeNothingWitness ==
    \E c \in Callers :
        /\ pc[c] = "done" /\ call[c].op = "list_expenses"
        /\ result[c].shape # "none"
        /\ Len(cur[c].fetched) = 2
        /\ Cardinality(db) = 2

====
